---- MODULE Spec2Model ----
(***************************************************************************)
(* Model of scripts/update-reading.py: one run reads reading.yaml, renders *)
(* the "Reading Now" card and patches it into index.html after writing     *)
(* index.html.bak.                                                         *)
(*                                                                         *)
(* Texts are sequences of tokens.  A token is one character, or a literal  *)
(* the code treats as a unit: a key ("title:"), a marker comment, a chunk  *)
(* of the fixed card markup.  No key, marker or markup chunk overlaps      *)
(* itself or another one, so a regular expression finds them in the token  *)
(* sequence exactly where it finds them in the text.  The regular          *)
(* expressions are modelled by what the re module does with them: greedy   *)
(* and lazy repetition, backtracking, . that matches no newline, \s that   *)
(* matches one, and the replacement template of re.sub.                    *)
(*                                                                         *)
(* The files hold no carriage return (text mode would turn it into a       *)
(* newline), and the values of reading.yaml hold no markup of the card.    *)
(***************************************************************************)
EXTENDS Integers, Sequences, FiniteSets, TLC

VARIABLES
    yaml,          \* reading.yaml: [exists, text]
    html,          \* index.html: [exists, text]
    bak,           \* index.html.bak: [exists, text]
    pc,            \* position of the run in main()
    run,           \* number of the current invocation of the tool
    data,          \* main: data = parse_yaml(YAML_FILE)
    new_html,      \* main: new_html = generate_html(data)
    html_content,  \* update_html: the text read from index.html
    new_content,   \* update_html: the result of re.sub
    error,         \* the exception that ended the run, "none" if none
    prev_html      \* history: index.html as the previous invocation left it

vars == <<yaml, html, bak, pc, run, data, new_html, html_content,
          new_content, error, prev_html>>

----------------------------------------------------------------------------
(* Bounds of the model *)

MaxDoc == 4
MaxBooks == 3
MaxRuns == 2

----------------------------------------------------------------------------
(* Tokens *)

SP == " "
NL == "\n"
Q == "\""
BS == "\\"
DASH == "-"
START == "<!-- Reading Now -->"
END == "<!-- Latest Creative Work -->"

FIELDS == <<"title", "author", "image", "buy_url", "buy_label", "description">>

Key(field) ==
    CASE field = "title" -> "title:"
      [] field = "author" -> "author:"
      [] field = "image" -> "image:"
      [] field = "buy_url" -> "buy_url:"
      [] field = "buy_label" -> "buy_label:"
      [] field = "description" -> "description:"
      [] field = "summary" -> "summary:"

File(text) == [exists |-> TRUE, text |-> text]
NoFile == [exists |-> FALSE, text |-> <<>>]

Match(text) == [ok |-> TRUE, text |-> text]
NoMatch == [ok |-> FALSE, text |-> <<>>]

Min(S) == CHOOSE x \in S : \A y \in S : x <= y
Max(S) == CHOOSE x \in S : \A y \in S : x >= y

RECURSIVE Cat(_)
Cat(ss) == IF ss = <<>> THEN <<>> ELSE Head(ss) \o Cat(Tail(ss))

RECURSIVE Join(_, _)
Join(sep, ss) ==
    IF ss = <<>> THEN <<>>
    ELSE IF Len(ss) = 1 THEN ss[1]
    ELSE ss[1] \o sep \o Join(sep, Tail(ss))

----------------------------------------------------------------------------
(* The regular expressions of parse_yaml, on token sequences *)

\* \s
IsSpace(t) == t \in {SP, NL}

\* str.strip()
RECURSIVE Strip(_)
Strip(s) ==
    IF s = <<>> THEN s
    ELSE IF IsSpace(s[1]) THEN Strip(Tail(s))
    ELSE IF IsSpace(s[Len(s)]) THEN Strip(SubSeq(s, 1, Len(s) - 1))
    ELSE s

\* \s* from position p, greedy: the first position >= p not holding whitespace
RECURSIVE SkipWs(_, _)
SkipWs(c, p) == IF p <= Len(c) /\ IsSpace(c[p]) THEN SkipWs(c, p + 1) ELSE p

\* the end of p's line: the first position >= p holding a newline, or Len + 1
RECURSIVE Eol(_, _)
Eol(c, p) == IF p <= Len(c) /\ c[p] # NL THEN Eol(c, p + 1) ELSE p

\* key:\s*"(.+)" matched at the key at position i.  The greedy .+ (which
\* matches no newline) ends at the last quote of the line the first quote is
\* on; with multiline ($ follows the closing quote) that quote ends the line.
QuotedAt(c, i, multiline) ==
    LET j == SkipWs(c, i + 1)
        e == Eol(c, j + 1)
        ks == IF multiline
              THEN {k \in {e - 1} : k >= j + 2 /\ c[k] = Q}
              ELSE {k \in (j + 2)..(e - 1) : c[k] = Q}
    IN  IF j > Len(c) \/ c[j] # Q THEN NoMatch
        ELSE IF ks = {} THEN NoMatch
        ELSE Match(SubSeq(c, j + 1, Max(ks) - 1))

\* key:\s*(.+?)(?:\n|$) and ^key:\s*(.+)$ matched at the key at position i.
\* \s* takes all the whitespace after the key, newlines included, and gives
\* it back one token at a time until (.+) finds a token that is no newline;
\* the capture then runs to the end of that token's line.
UnquotedAt(c, i) ==
    LET j == SkipWs(c, i + 1)
        ps == {p \in (i + 1)..j : p <= Len(c) /\ c[p] # NL}
    IN  IF ps = {} THEN NoMatch
        ELSE Match(SubSeq(c, Max(ps), Eol(c, Max(ps)) - 1))

\* re.search: the leftmost key at which the pattern matches.  With multiline
\* the pattern starts with ^: the key starts a line.
KeyAt(c, i, key, multiline) ==
    /\ c[i] = key
    /\ multiline => (i = 1 \/ c[i - 1] = NL)

ReSearchQuoted(c, key, multiline) ==
    LET hits == {i \in 1..Len(c) : /\ KeyAt(c, i, key, multiline)
                                   /\ QuotedAt(c, i, multiline).ok}
    IN  IF hits = {} THEN NoMatch ELSE QuotedAt(c, Min(hits), multiline)

ReSearchUnquoted(c, key, multiline) ==
    LET hits == {i \in 1..Len(c) : /\ KeyAt(c, i, key, multiline)
                                   /\ UnquotedAt(c, i).ok}
    IN  IF hits = {} THEN NoMatch ELSE UnquotedAt(c, Min(hits))

\* \n\s*-\s+title: matched at position i: the position of its last token, or 0
SplitAt(c, i) ==
    LET j == SkipWs(c, i + 1)
        m == SkipWs(c, j + 1)
    IN  IF /\ c[i] = NL
           /\ j <= Len(c) /\ c[j] = DASH
           /\ m > j + 1
           /\ m <= Len(c) /\ c[m] = "title:"
        THEN m ELSE 0

\* re.split(r'\n\s*-\s+title:', content): the pieces between the matches,
\* found from the left; cur is where the current piece starts
RECURSIVE ReSplit(_, _, _)
ReSplit(c, cur, i) ==
    LET hits == {k \in i..Len(c) : SplitAt(c, k) # 0}
    IN  IF hits = {} THEN <<SubSeq(c, cur, Len(c))>>
        ELSE <<SubSeq(c, cur, Min(hits) - 1)>>
             \o ReSplit(c, SplitAt(c, Min(hits)) + 1,
                        SplitAt(c, Min(hits)) + 1)

----------------------------------------------------------------------------
(* parse_yaml *)

\* lines 33-38
ParseSummary(content) ==
    LET quoted == ReSearchQuoted(content, "summary:", TRUE)
        summary_match == IF quoted.ok THEN quoted
                         ELSE ReSearchUnquoted(content, "summary:", TRUE)
    IN  IF summary_match.ok THEN Strip(summary_match.text) ELSE <<>>

\* lines 48-59, for one field of one block
ParseField(block, field) ==
    LET quoted == ReSearchQuoted(block, Key(field), FALSE)
        match == IF quoted.ok THEN quoted
                 ELSE ReSearchUnquoted(block, Key(field), FALSE)
    IN  IF match.ok THEN Strip(match.text) ELSE <<>>

\* lines 43-59: the block gets back the "title:" the split took
ParseBook(piece) ==
    LET block == <<"title:">> \o piece
    IN  [f \in {FIELDS[k] : k \in 1..Len(FIELDS)} |-> ParseField(block, f)]

\* lines 25-63
ParseYaml(content) ==
    LET book_blocks == Tail(ReSplit(content, 1, 1))
    IN  [summary |-> ParseSummary(content),
         books |-> [k \in 1..Len(book_blocks) |-> ParseBook(book_blocks[k])]]

----------------------------------------------------------------------------
(* generate_html *)

\* the fixed markup of the card, one token per chunk between two values
\* (abridged; ' stands for the double quote and [ ] for the backquotes)
IMG_OPEN == "<img alt='"
IMG_SRC == "' src='"
IMG_FULL == "' style='width: 100%;'...>"
IMG_HALF == "' style='width: 48%;'...>"
FLEX_OPEN == "<div style='display: flex;...'>"
FLEX_CLOSE == "</div>"
LI_OPEN == "<li>"
LI_CLOSE == "</li>"
A_OPEN == "<a aria-label='Find ["
A_ON == "] on "
A_HREF == "' href='"
A_TOOLTIP == "'... data-tooltip='Find ["
A_CLOSE == "'...>...</a>"
SEP == "(newline, indent)"
CARD_OPEN == "<div class='col...'>..."
CARD_CONTENT == "</div>...<p>"
CARD_REVEAL == "</p>...<ul>"
CARD_ACTION == "</ul><div class='card-action'>"
CARD_CLOSE == "</div>...</div>"
ASSETS == "/assets/img/"

\* lines 66-70
GetImageSrc(image_value) ==
    IF image_value # <<>> /\ image_value[1] \in {"http://", "https://"}
    THEN image_value
    ELSE <<ASSETS>> \o image_value

\* one <img> of lines 82-83 and 88-91
Img(book, style) ==
    <<IMG_OPEN>> \o book.title \o <<IMG_SRC>> \o GetImageSrc(book.image)
    \o <<style>>

\* lines 80-92, for a list that holds the books the branch reads
ImageHtml(books) ==
    IF Len(books) = 1
    THEN Img(books[1], IMG_FULL)
    ELSE <<FLEX_OPEN>> \o Img(books[1], IMG_HALF) \o Img(books[2], IMG_HALF)
         \o <<FLEX_CLOSE>>

\* DetailItem without the author branch
DetailItemNoAuthor(book) ==
    <<LI_OPEN>> \o book.title \o <<": ">> \o book.description \o <<LI_CLOSE>>

\* lines 97-102
DetailItem(book) ==
    IF book.author # <<>>
    THEN <<LI_OPEN>> \o book.title \o <<" (">> \o book.author \o <<"): ">>
         \o book.description \o <<LI_CLOSE>>
    ELSE <<LI_OPEN>> \o book.title \o <<": ">> \o book.description
         \o <<LI_CLOSE>>

\* lines 108-115
ActionItem(book) ==
    <<A_OPEN>> \o book.title \o <<A_ON>> \o book.buy_label \o <<A_HREF>>
    \o book.buy_url \o <<A_TOOLTIP>> \o book.title \o <<A_ON>>
    \o book.buy_label \o <<A_CLOSE>>

\* lines 95-103: every book of the list, in its order
DetailsHtml(books) ==
    Join(<<SEP>>, [k \in 1..Len(books) |-> DetailItem(books[k])])

\* lines 106-116: every book of the list, in its order
ActionsHtml(books) ==
    Join(<<SEP>>, [k \in 1..Len(books) |-> ActionItem(books[k])])

\* GenerateHtml with the lists cut to the two books the image section shows
GenerateHtmlFirstTwo(d) ==
    IF Len(d.books) # 1 /\ Len(d.books) < 2
    THEN [ok |-> FALSE, text |-> <<>>]
    ELSE LET shown == IF Len(d.books) > 2 THEN SubSeq(d.books, 1, 2)
                      ELSE d.books
         IN  [ok |-> TRUE,
              text |-> <<START, CARD_OPEN>> \o ImageHtml(d.books)
                       \o <<CARD_CONTENT>> \o d.summary
                       \o <<CARD_REVEAL>> \o DetailsHtml(shown)
                       \o <<CARD_ACTION>> \o ActionsHtml(shown)
                       \o <<CARD_CLOSE, END>>]

\* lines 73-147.  With no book, num_books == 1 is false and books[0] in the
\* else branch raises IndexError.
GenerateHtml(d) ==
    IF Len(d.books) # 1 /\ Len(d.books) < 2
    THEN [ok |-> FALSE, text |-> <<>>]
    ELSE [ok |-> TRUE,
          text |-> <<START, CARD_OPEN>> \o ImageHtml(d.books)
                   \o <<CARD_CONTENT>> \o d.summary
                   \o <<CARD_REVEAL>> \o DetailsHtml(d.books)
                   \o <<CARD_ACTION>> \o ActionsHtml(d.books)
                   \o <<CARD_CLOSE, END>>]

----------------------------------------------------------------------------
(* re.sub(pattern, new_card_html, html_content, flags=re.DOTALL) *)

\* the tokens that start with an ASCII letter or digit: a backslash before
\* one of them, in a replacement template, is an escape
WordTokens ==
    {"z", "n", "g<0>", "T1", "T2", "T3", "T4", "T5", "A1", "A2", "A3", "A4",
     "A5", "i.jpg", "h/i.jpg", "u", "L", "D", "S0", "http://", "https://",
     "title:", "author:", "image:", "buy_url:", "buy_label:", "description:",
     "summary:", "books:"}

\* re.sub reads its replacement as a template: \\ is a backslash, \n a
\* newline, \g<0> the matched text, a backslash before any other letter or
\* digit (or at the end) is an error, and before anything else stays.
RECURSIVE ExpandFrom(_, _, _)
ExpandFrom(t, i, matched) ==
    LET escapes == {k \in i..Len(t) : t[k] = BS}
        b == Min(escapes)
        here == CASE b = Len(t) -> NoMatch
                  [] t[b + 1] = BS -> Match(<<BS>>)
                  [] t[b + 1] = "n" -> Match(<<NL>>)
                  [] t[b + 1] = "g<0>" -> Match(matched)
                  [] t[b + 1] \in WordTokens \ {"n", "g<0>"} -> NoMatch
                  [] OTHER -> Match(<<BS, t[b + 1]>>)
        rest == ExpandFrom(t, b + 2, matched)
    IN  IF escapes = {} THEN Match(SubSeq(t, i, Len(t)))
        ELSE [ok |-> here.ok /\ rest.ok,
              text |-> SubSeq(t, i, b - 1) \o here.text \o rest.text]

ExpandTemplate(t, matched) ==
    LET r == ExpandFrom(t, 1, matched)
    IN  IF r.ok THEN r ELSE NoMatch

\* <!-- Reading Now -->.*?<!-- Latest Creative Work --> at position i, with
\* DOTALL: the position of the first end marker after it, or 0
RegionEnd(d, i) ==
    LET ks == {k \in (i + 1)..Len(d) : d[k] = END}
    IN  IF d[i] = START /\ ks # {} THEN Min(ks) ELSE 0

\* the scan of re.sub from position i; left is the number of replacements
\* still allowed (count), -1 for no limit
RECURSIVE SubFrom(_, _, _, _)
SubFrom(d, i, t, left) ==
    LET hits == {k \in i..Len(d) : RegionEnd(d, k) # 0}
        s == Min(hits)
    IN  IF left = 0 \/ hits = {} THEN SubSeq(d, i, Len(d))
        ELSE SubSeq(d, i, s - 1)
             \o ExpandTemplate(t, SubSeq(d, s, RegionEnd(d, s))).text
             \o SubFrom(d, RegionEnd(d, s) + 1, t,
                        IF left > 0 THEN left - 1 ELSE left)

\* ReSub with count=1
ReSubFirst(repl, string) ==
    IF ~ExpandTemplate(repl, <<>>).ok THEN NoMatch
    ELSE Match(SubFrom(string, 1, repl, 1))

\* line 162: count is not given, so every match is replaced.  The template is
\* compiled before the search: a bad escape raises re.error, match or not.
ReSub(repl, string) ==
    IF ~ExpandTemplate(repl, <<>>).ok THEN NoMatch
    ELSE Match(SubFrom(string, 1, repl, -1))

----------------------------------------------------------------------------
(* The inputs: the texts of reading.yaml and index.html the runs start from *)

\* the values tried in the summary or in a description: plain text, the
\* backslash sequences re.sub reads in a template, and the end marker
WildValues ==
    {<<"z">>, <<BS, "n">>, <<BS, BS>>, <<BS, "z">>, <<BS, "g<0>">>, <<END>>}

Slots == {"summary", "description"}

\* how the first book gives its author: `author: "A1"`, `author:` with
\* nothing after it, or no author line
AuthorForms == {"quoted", "empty", "absent"}

TitleOf(i) == <<"T1", "T2", "T3", "T4", "T5">>[i]
AuthorOf(i) == <<"A1", "A2", "A3", "A4", "A5">>[i]

\* odd books name a local image file, even books give a URL
ImageOf(i) == IF i % 2 = 1 THEN <<"i.jpg">> ELSE <<"https://", "h/i.jpg">>

AuthorLine(i, form) ==
    CASE form = "quoted" -> <<SP, "author:", SP, Q, AuthorOf(i), Q, NL>>
      [] form = "empty" -> <<SP, "author:", NL>>
      [] form = "absent" -> <<>>

\* the block of book i; image and buy_url are written without quotes
BookText(i, form, desc) ==
    <<SP, DASH, SP, "title:", SP, Q, TitleOf(i), Q, NL>>
    \o AuthorLine(i, form)
    \o <<SP, "image:", SP>> \o ImageOf(i) \o <<NL>>
    \o <<SP, "buy_url:", SP, "u", NL>>
    \o <<SP, "buy_label:", SP, Q, "L", Q, NL>>
    \o <<SP, "description:", SP, Q>> \o desc \o <<Q, NL>>

ConfigText(n, form, slot, wild) ==
    (IF slot = "summary"
     THEN <<"summary:", SP, Q>> \o wild \o <<Q, NL>>
     ELSE <<"summary:", SP, "S0", NL>>)
    \o <<"books:", NL>>
    \o Cat([i \in 1..n |->
             BookText(i,
                      IF i = 1 THEN form ELSE "quoted",
                      IF i = 1 /\ slot = "description" THEN wild ELSE <<"D">>)])

\* the plain configuration in every author form, and every wild value in
\* either slot of the configuration whose authors are all quoted
Configs ==
    {ConfigText(n, form, "summary", <<"z">>) :
        n \in 0..MaxBooks, form \in AuthorForms}
    \cup
    {ConfigText(n, "quoted", slot, wild) :
        n \in 0..MaxBooks, slot \in Slots, wild \in WildValues}

DocTokens == {START, END, "z"}

Docs == UNION {[1..n -> DocTokens] : n \in 0..MaxDoc}

NoData == [summary |-> <<>>, books |-> <<>>]

----------------------------------------------------------------------------
(* The run *)

\* No backup exists before the first run, except where the configuration is
\* missing: a run that gets further writes the backup itself, and Rerun then
\* starts the tool with that backup in place.
Init ==
    /\ yaml \in {NoFile} \cup {File(c) : c \in Configs}
    /\ html \in {NoFile} \cup {File(d) : d \in Docs}
    /\ bak \in {NoFile} \cup (IF yaml.exists THEN {} ELSE {File(<<"old">>)})
    /\ pc = "start"
    /\ run = 1
    /\ data = NoData
    /\ new_html = <<>>
    /\ html_content = <<>>
    /\ new_content = <<>>
    /\ error = "none"
    /\ prev_html = html

\* an uncaught exception: the interpreter prints the traceback and exits 1
Raise(e) ==
    /\ pc' = "crashed"
    /\ error' = e

\* CheckConfig without the sys.exit(1)
CheckConfigNoExit ==
    /\ pc = "start"
    /\ pc' = "checked"
    /\ UNCHANGED <<yaml, html, bak, run, data, new_html, html_content,
                   new_content, error, prev_html>>

\* main, lines 169-171
CheckConfig ==
    /\ pc = "start"
    /\ pc' = IF yaml.exists THEN "checked" ELSE "exit1"
    /\ UNCHANGED <<yaml, html, bak, run, data, new_html, html_content,
                   new_content, error, prev_html>>

\* main, lines 173-180
ParseConfig ==
    /\ pc = "checked"
    /\ IF yaml.exists
       THEN /\ data' = ParseYaml(yaml.text)
            /\ pc' = "parsed"
            /\ UNCHANGED error
       ELSE /\ Raise("FileNotFoundError")
            /\ UNCHANGED data
    /\ UNCHANGED <<yaml, html, bak, run, new_html, html_content,
                   new_content, prev_html>>

\* main, line 182
Render ==
    /\ pc = "parsed"
    /\ LET r == GenerateHtml(data)
       IN  IF r.ok
           THEN /\ new_html' = r.text
                /\ pc' = "rendered"
                /\ UNCHANGED error
           ELSE /\ Raise("IndexError")
                /\ UNCHANGED new_html
    /\ UNCHANGED <<yaml, html, bak, run, data, html_content, new_content,
                   prev_html>>

\* update_html, lines 152-153
ReadDocument ==
    /\ pc = "rendered"
    /\ IF html.exists
       THEN /\ html_content' = html.text
            /\ pc' = "read"
            /\ UNCHANGED error
       ELSE /\ Raise("FileNotFoundError")
            /\ UNCHANGED html_content
    /\ UNCHANGED <<yaml, html, bak, run, data, new_html, new_content,
                   prev_html>>

\* WriteBackup only where the pattern matches
WriteBackupIfMatched ==
    /\ pc = "read"
    /\ bak' = IF \E k \in 1..Len(html_content) : RegionEnd(html_content, k) # 0
              THEN File(html_content)
              ELSE bak
    /\ pc' = "backed_up"
    /\ UNCHANGED <<yaml, html, run, data, new_html, html_content,
                   new_content, error, prev_html>>

\* update_html, lines 156-158
WriteBackup ==
    /\ pc = "read"
    /\ bak' = File(html_content)
    /\ pc' = "backed_up"
    /\ UNCHANGED <<yaml, html, run, data, new_html, html_content,
                   new_content, error, prev_html>>

\* update_html, lines 161-162
Substitute ==
    /\ pc = "backed_up"
    /\ LET r == ReSub(new_html, html_content)
       IN  IF r.ok
           THEN /\ new_content' = r.text
                /\ pc' = "substituted"
                /\ UNCHANGED error
           ELSE /\ Raise("re.error")
                /\ UNCHANGED new_content
    /\ UNCHANGED <<yaml, html, bak, run, data, new_html, html_content,
                   prev_html>>

\* update_html, lines 164-165
WriteDocument ==
    /\ pc = "substituted"
    /\ html' = File(new_content)
    /\ pc' = "written"
    /\ UNCHANGED <<yaml, bak, run, data, new_html, html_content,
                   new_content, error, prev_html>>

\* main, lines 185-191: the messages; the process ends with status 0
Finish ==
    /\ pc = "written"
    /\ pc' = "done"
    /\ UNCHANGED <<yaml, html, bak, run, data, new_html, html_content,
                   new_content, error, prev_html>>

\* the tool is started again on the files the last run left
Rerun ==
    /\ pc = "done"
    /\ run < MaxRuns
    /\ run' = run + 1
    /\ prev_html' = html
    /\ pc' = "start"
    /\ data' = NoData
    /\ new_html' = <<>>
    /\ html_content' = <<>>
    /\ new_content' = <<>>
    /\ UNCHANGED <<yaml, html, bak, error>>

Next ==
    \/ CheckConfig
    \/ ParseConfig
    \/ Render
    \/ ReadDocument
    \/ WriteBackup
    \/ Substitute
    \/ WriteDocument
    \/ Finish
    \/ Rerun

Spec == Init /\ [][Next]_vars

----------------------------------------------------------------------------
(* What the claims speak of *)

\* the marker regions of a document, from the left: <<start, end>> positions
\* of a start marker and of the first end marker after it
RECURSIVE RegionsFrom(_, _)
RegionsFrom(d, i) ==
    LET starts == {k \in i..Len(d) :
                      d[k] = START /\ \E e \in (k + 1)..Len(d) : d[e] = END}
        s == Min(starts)
        e == Min({k \in (s + 1)..Len(d) : d[k] = END})
    IN  IF starts = {} THEN <<>>
        ELSE <<<<s, e>>>> \o RegionsFrom(d, e + 1)

Regions(d) == RegionsFrom(d, 1)
NumRegions(d) == Len(Regions(d))

Count(s, tok) == Cardinality({i \in 1..Len(s) : s[i] = tok})
Occurs(s, tok) == \E i \in 1..Len(s) : s[i] = tok
Pos(s, tok) == Min({i \in 1..Len(s) : s[i] = tok})
Suffix(s, n) == SubSeq(s, Len(s) - n + 1, Len(s))
IsInfix(v, s) == \E i \in 0..(Len(s) - Len(v)) : SubSeq(s, i + 1, i + Len(v)) = v

\* this run has written index.html
Patched == pc \in {"written", "done"}

\* this run has rendered the card
Rendered == new_html # <<>>

----------------------------------------------------------------------------
(* C1 *)

\* C1 (as claimed): when the document read has exactly one marker region,
\* the document written is the text before the region, then the fragment
\* character for character, then the text after the region.
C1_RegionIsFragment ==
    (Patched /\ NumRegions(html_content) = 1) =>
        LET r == Regions(html_content)[1]
        IN  html.text = SubSeq(html_content, 1, r[1] - 1) \o new_html
                        \o SubSeq(html_content, r[2] + 1, Len(html_content))

----------------------------------------------------------------------------
(* C2 *)

\* the document rebuilt from the text outside the regions rs (from position
\* i on) and the replacement of each region
RECURSIVE Rebuilt(_, _, _, _)
Rebuilt(d, rs, i, t) ==
    IF rs = <<>> THEN SubSeq(d, i, Len(d))
    ELSE SubSeq(d, i, rs[1][1] - 1)
         \o ExpandTemplate(t, SubSeq(d, rs[1][1], rs[1][2])).text
         \o Rebuilt(d, Tail(rs), rs[1][2] + 1, t)

\* C2 (amended): when the document read has more than one marker region,
\* the document written has every region replaced by the replacement text of
\* the fragment, and the text outside the regions unchanged.
C2_EveryRegionReplaced ==
    (Patched /\ NumRegions(html_content) > 1) =>
        html.text = Rebuilt(html_content, Regions(html_content), 1, new_html)

\* C2 (as claimed): when the document read has more than one marker region,
\* only the first is replaced: the text after the first region, later
\* regions included, is in the document written as it was.
C2_OnlyFirstReplaced ==
    (Patched /\ NumRegions(html_content) > 1) =>
        LET rest == SubSeq(html_content, Regions(html_content)[1][2] + 1,
                           Len(html_content))
        IN  /\ Len(html.text) >= Len(rest)
            /\ Suffix(html.text, Len(rest)) = rest

\* C2 witness: a document with two regions or more has been patched
C2_Witness == Patched /\ NumRegions(html_content) > 1

----------------------------------------------------------------------------
(* C3 *)

\* C3 (as claimed): a second run with the same configuration leaves the
\* document as the first run left it.  (A first document without the marker
\* pair is never changed, so the case is the one with the pair.)
C3_RerunSameDocument ==
    (run >= 2 /\ pc = "done") => html = prev_html

----------------------------------------------------------------------------
(* C4 *)

\* C4: the step after the read writes the backup, markers or not, as the
\* text read, and leaves the document alone; and a step that changes the
\* document finds the backup holding the text this run read, which is the
\* document as it is before the step.
C4_BackupBeforeOverwrite ==
    [][/\ (pc = "read") =>
              /\ bak' = File(html_content)
              /\ html' = html
       /\ (html' # html) =>
              /\ bak = File(html_content)
              /\ html = File(html_content)
              /\ bak' = bak]_vars

\* C4 witness: the document has been changed and the backup holds the text
\* it had
C4_Witness ==
    /\ Patched
    /\ html.text # html_content
    /\ bak = File(html_content)

----------------------------------------------------------------------------
(* C5 *)

\* C5 (as claimed): on a document without the marker pair the patch step
\* raises no error: the replacement is a no-op and the document is written
\* back as it was read.
C5_NoMarkersNoError ==
    (html.exists /\ NumRegions(html.text) = 0) =>
        /\ ~(pc = "crashed" /\ error = "re.error")
        /\ Patched => html.text = html_content

----------------------------------------------------------------------------
(* C6 *)

\* C6: without the configuration file the only step of the run is the exit
\* with status 1: nothing is parsed or rendered, and neither the document
\* nor the backup is created or changed.
C6_MissingConfigExits ==
    [][~yaml.exists =>
          /\ pc' = "exit1"
          /\ html' = html
          /\ bak' = bak
          /\ data' = NoData
          /\ new_html' = <<>>]_vars

\* C6 witness: a run has ended for want of the configuration file
C6_Witness == ~yaml.exists /\ pc = "exit1" /\ bak.exists

----------------------------------------------------------------------------
(* C7 *)

\* C7 (as claimed): with no book parsed the run does not fail in
\* generate_html; it goes on to the backup and the patch.
C7_ZeroBooksRendered ==
    (pc \notin {"start", "checked", "exit1"} /\ Len(data.books) = 0) =>
        pc # "crashed"

----------------------------------------------------------------------------
(* C8 *)

\* C8 (amended): with three books or more, all are parsed; the image
\* section shows the first two only, and the detail list and the action
\* buttons hold an entry for every book, the third and later ones included.
C8_ExtrasListedNotShown ==
    (Rendered /\ Len(data.books) >= 3) =>
        /\ Len(data.books) = Count(yaml.text, DASH)
        /\ Count(new_html, IMG_OPEN) = 2
        /\ Count(new_html, LI_OPEN) = Len(data.books)
        /\ Count(new_html, A_OPEN) = Len(data.books)
        /\ \A k \in 3..Len(data.books) :
              /\ data.books[k].title = <<TitleOf(k)>>
              /\ Count(new_html, TitleOf(k)) = 3
              /\ \A i \in 1..Pos(new_html, CARD_CONTENT) :
                    new_html[i] # TitleOf(k)

\* C8 (as claimed): with three books or more, the fragment has entries for
\* the first two only and nothing of the third and later ones.
C8_OnlyFirstTwoUsed ==
    (Rendered /\ Len(data.books) >= 3) =>
        /\ Count(new_html, LI_OPEN) = 2
        /\ Count(new_html, A_OPEN) = 2
        /\ \A k \in 3..Len(data.books) : ~Occurs(new_html, TitleOf(k))

\* C8 witness: a configuration of three books or more has been rendered
C8_Witness == Rendered /\ Len(data.books) >= 3

----------------------------------------------------------------------------
(* C9 *)

AllPopulated(book) == \A k \in 1..Len(FIELDS) : book[FIELDS[k]] # <<>>

\* the tokens of s between the first a and the first b
Between(s, a, b) == SubSeq(s, Pos(s, a) + 1, Pos(s, b) - 1)

\* C9: with exactly two books, every field populated, the fragment holds
\* two detail items, "title (author): description", book 1 then book 2, and
\* two action elements, book 1's then book 2's.
C9_TwoBooksInOrder ==
    (Rendered /\ Len(data.books) = 2
     /\ AllPopulated(data.books[1]) /\ AllPopulated(data.books[2])) =>
        LET b1 == data.books[1]
            b2 == data.books[2]
            actions == Between(new_html, CARD_ACTION, CARD_CLOSE)
            second == Max({i \in 1..Len(actions) : actions[i] = A_OPEN})
        IN  /\ Count(new_html, LI_OPEN) = 2
            /\ Count(new_html, A_OPEN) = 2
            /\ Between(new_html, CARD_REVEAL, CARD_ACTION)
                   = <<LI_OPEN>> \o b1.title \o <<" (">> \o b1.author
                     \o <<"): ">> \o b1.description \o <<LI_CLOSE>>
                     \o <<SEP>>
                     \o <<LI_OPEN>> \o b2.title \o <<" (">> \o b2.author
                     \o <<"): ">> \o b2.description \o <<LI_CLOSE>>
            /\ actions[1] = A_OPEN
            /\ second > 1
            /\ SubSeq(actions, 2, 1 + Len(b1.title)) = b1.title
            /\ SubSeq(actions, second + 1, second + Len(b2.title)) = b2.title
            /\ IsInfix(<<A_HREF>> \o b1.buy_url \o <<A_TOOLTIP>>,
                       SubSeq(actions, 1, second - 1))
            /\ IsInfix(<<A_HREF>> \o b2.buy_url \o <<A_TOOLTIP>>,
                       SubSeq(actions, second, Len(actions)))

\* C9 witness: two books with every field populated have been rendered
C9_Witness ==
    /\ Rendered
    /\ Len(data.books) = 2
    /\ AllPopulated(data.books[1])
    /\ AllPopulated(data.books[2])
    /\ data.books[1].title # data.books[2].title

----------------------------------------------------------------------------
(* C10 *)

\* what follows the first key of the field on that key's line
OwnLine(block, field) ==
    LET at == {i \in 1..Len(block) : block[i] = Key(field)}
    IN  IF at = {} THEN <<>>
        ELSE SubSeq(block, Min(at) + 1, Eol(block, Min(at)) - 1)

\* C10 (as claimed): the value of a field is text of the field's own line,
\* and the empty string when the field is absent or its line holds no value.
C10_ValueFromOwnLine ==
    (pc = "parsed") =>
        LET pieces == Tail(ReSplit(yaml.text, 1, 1))
        IN  \A k \in 1..Len(data.books) : \A n \in 1..Len(FIELDS) :
                IsInfix(data.books[k][FIELDS[n]],
                        OwnLine(<<"title:">> \o pieces[k], FIELDS[n]))

====
